---- MODULE Spec2Model ----
(***************************************************************************)
(* A model of the streamlit-cloudrun backend (src/backend/main.py): the    *)
(* IAP bearer-token gate (auth_scheme, validate_iap_jwt), the Vertex AI    *)
(* conversation turn (converse_chat_with_followups) and the three routes   *)
(* (handle_query, handle_echo, handle_noauth).                             *)
(*                                                                         *)
(* Python values are modelled as follows.  None is the string NoneVal, the *)
(* empty string is "", and an f-string is the sequence of its pieces, so   *)
(* that f"Unable to start conversation: {e}" is                            *)
(* <<"Unable to start conversation: ", e>>.  The value a function returns  *)
(* is a record that keeps the Python type of the value (a tuple or a       *)
(* dict), because the routes unpack it.                                    *)
(*                                                                         *)
(* The handlers are `async def` functions whose bodies never await: the    *)
(* event loop runs each body to completion, so one handler is one action.  *)
(* The dependencies of a route (auth_scheme, then validate_iap_jwt) are    *)
(* resolved before the body, each in a step of its own.                    *)
(*                                                                         *)
(* Four specifications share the state: Spec (one request at a time and a  *)
(* client that resubmits the conversation_id), ConcurrentSpec (two         *)
(* requests whose steps interleave), FrontendSpec (one session of          *)
(* src/frontend/app.py posting to the backend) and IntrospectSpec (the     *)
(* token decoding blocks applied to raw token strings of every shape).     *)
(***************************************************************************)
EXTENDS Naturals, Sequences, FiniteSets

VARIABLES
    PROJECT_ID,            \* main.py:15, os.environ.get("GCP_PROJECT_NUMBER")
    DATA_STORE_ID,         \* main.py:17, os.environ.get("VERTEX_AI_DATASTORE_ID")
    AUDIENCE,              \* main.py:40, os.environ.get("AUDIENCE")
    conversation_history,  \* main.py:24, the module-level dict
    req,                   \* the request being served and what was computed for it
    chain,                 \* a client that resubmits the conversation_id it was given
    peer,                  \* a second request in flight, waiting for its next step
    fe,                    \* app.py: one frontend session (st.session_state and the run)
    jwt                    \* a raw token string and what introspection made of it

vars == <<PROJECT_ID, DATA_STORE_ID, AUDIENCE, conversation_history, req, chain,
          peer, fe, jwt>>

\* ------------------------------------------------------------------ values

NoneVal == "<None>"

\* main.py:16
LOCATION == "global"

\* Python truthiness of an Optional[str]: None and "" are falsy.
Truthy(x) == x # NoneVal /\ x # ""

\* The longest chain of resubmitted turns the client is followed through.
MaxChain == 3

\* What the environment variables may hold: unset, or a value.
ProjectValues == {NoneVal, "1234567890"}
DataStoreValues == {NoneVal, "my-datastore"}
AudienceValues == {NoneVal, "aud-A"}

\* Conversation names the external service hands out (never empty: the
\* service names every conversation it creates or continues).
Names == {"conversations/c1", "conversations/c2"}

\* What a client may put in QueryRequest.conversation_id (Optional[str]).
Handles == {NoneVal, ""} \cup Names

Queries == {"hello", "again"}

\* The messages of the exceptions the external client may raise.
Errs == {"503 unavailable", "404 not found"}

Summaries == {"S1"}

Routes == {"/api/query", "/api/echo", "/api/noauth"}

\* ------------------------------------------------------------------ tokens
\* A credential is named by an identifier; TokenOf gives what the string of
\* that token is made of: the number of dot-separated segments, whether the
\* header and payload segments are base64url JSON, and what the verifier
\* looks at (signature, audience, expiry) with the email claim.

Creds == {"none", "good", "noemail", "badaud", "expired", "badsig", "malformed"}

GoodToken ==
    [segs |-> 3, hdrOk |-> TRUE, payOk |-> TRUE, sigOk |-> TRUE,
     aud |-> "aud-A", expired |-> FALSE, email |-> "alice@example.com"]

TokenOf(c) ==
    CASE c = "good"      -> GoodToken
      [] c = "noemail"   -> [GoodToken EXCEPT !.email = NoneVal]
      [] c = "badaud"    -> [GoodToken EXCEPT !.aud = "aud-B"]
      [] c = "expired"   -> [GoodToken EXCEPT !.expired = TRUE]
      [] c = "badsig"    -> [GoodToken EXCEPT !.sigOk = FALSE]
      [] c = "malformed" -> [GoodToken EXCEPT !.segs = 2, !.payOk = FALSE, !.sigOk = FALSE]
      [] OTHER           -> [GoodToken EXCEPT !.segs = 0, !.hdrOk = FALSE, !.payOk = FALSE,
                                              !.sigOk = FALSE, !.email = NoneVal]

\* google.oauth2.id_token.verify_oauth2_token(token, Request(), audience):
\* accepts a well-formed, correctly signed, unexpired token whose audience
\* is the expected one (an audience of None is not checked), provided the
\* signing certificates could be fetched.
VerifierAccepts(c, audience, certsOk) ==
    LET t == TokenOf(c) IN
        /\ certsOk
        /\ t.segs = 3 /\ t.hdrOk /\ t.payOk
        /\ t.sigOk
        /\ ~t.expired
        /\ (audience # NoneVal => t.aud = audience)

\* decoded_token.get("email", "unknown_email")
EmailOf(c) ==
    IF TokenOf(c).email = NoneVal THEN "unknown_email" ELSE TokenOf(c).email

\* --------------------------------------------------------------- responses

NoResp ==
    [status |-> 0, kind |-> "none", detail |-> "", reply |-> <<>>,
     conversation_id |-> NoneVal, echo |-> "", raw_token |-> "",
     decoded_header |-> "", decoded_payload |-> ""]

\* raise HTTPException(status_code=s, detail=d)
HTTPError(s, d) == [NoResp EXCEPT !.status = s, !.kind = "HTTPException", !.detail = d]

\* An exception that leaves the handler: FastAPI answers 500.
ServerError == [NoResp EXCEPT !.status = 500, !.kind = "ServerError",
                              !.detail = "Internal Server Error"]

NoRet == [kind |-> "none", reply |-> <<>>, handle |-> NoneVal]

IdleReq ==
    [pc |-> "idle", route |-> "", cred |-> "none", query |-> "", handle |-> NoneVal,
     identity |-> NoneVal, raised |-> NoneVal, ret |-> NoRet, calls |-> <<>>,
     resp |-> NoResp]

NoChain == [active |-> FALSE, len |-> 0, creates |-> 0, last |-> NoneVal]

\* ---------------------------------------------------------------- Auth Gate

\* auth_scheme = HTTPBearer(): the dependency that reads the Authorization
\* header.  With no (or an empty) bearer credential it rejects the request
\* itself, before validate_iap_jwt runs: "Not authenticated", with status
\* 403 or 401 depending on the FastAPI release installed (notAuthStatus).
auth_scheme(cred, notAuthStatus) ==
    IF cred = "none"
    THEN [ok |-> FALSE, resp |-> HTTPError(notAuthStatus, "Not authenticated")]
    ELSE [ok |-> TRUE, resp |-> NoResp]

\* The releases differ in the status HTTPBearer raises.
NotAuthStatuses == {403, 401}

\* main.py:41, `if not expected_audience: raise ValueError(...)`
AudienceMissing(expected_audience) == ~Truthy(expected_audience)

\* A gate that forgets the audience check and hands None to the verifier.
validate_iap_jwt_NoAudienceCheck(cred, expected_audience, certsOk) ==
    IF VerifierAccepts(cred, expected_audience, certsOk)
    THEN [ok |-> TRUE, identity |-> EmailOf(cred), resp |-> NoResp]
    ELSE [ok |-> FALSE, identity |-> NoneVal,
          resp |-> HTTPError(401, "Invalid or missing IAP authorization token.")]

\* A gate whose except block logs the error and lets the request through.
validate_iap_jwt_FailOpen(cred, expected_audience, certsOk) ==
    IF /\ ~AudienceMissing(expected_audience)
       /\ VerifierAccepts(cred, expected_audience, certsOk)
    THEN [ok |-> TRUE, identity |-> EmailOf(cred), resp |-> NoResp]
    ELSE [ok |-> TRUE, identity |-> "unknown_email", resp |-> NoResp]

\* main.py:36-53.  Every exception of the try block, the ValueError of the
\* missing audience included, becomes the same HTTPException.
validate_iap_jwt(cred, expected_audience, certsOk) ==
    IF /\ ~AudienceMissing(expected_audience)
       /\ VerifierAccepts(cred, expected_audience, certsOk)
    THEN [ok |-> TRUE, identity |-> EmailOf(cred), resp |-> NoResp]
    ELSE [ok |-> FALSE, identity |-> NoneVal,
          resp |-> HTTPError(401, "Invalid or missing IAP authorization token.")]

\* -------------------------------------------------------- external service
\* What the ConversationalSearchServiceClient may answer.  A failed call
\* raises an exception whose message is err.

CreateAnswers ==
    {[ok |-> FALSE, err |-> e, name |-> NoneVal] : e \in Errs}
    \cup {[ok |-> TRUE, err |-> "", name |-> n] : n \in Names}

\* summary is NoneVal when response.reply.summary is unset (falsy);
\* conv is NoneVal when response.conversation is unset (falsy).
ConverseAnswers ==
    {[ok |-> FALSE, err |-> e, summary |-> NoneVal, conv |-> NoneVal] : e \in Errs}
    \cup {[ok |-> TRUE, err |-> "", summary |-> s, conv |-> c] :
            s \in {NoneVal} \cup Summaries, c \in {NoneVal} \cup Names}

\* The record of one call made to the external service, in the call log.
\* name and query are what the call was given; rname is the name of the
\* conversation in the answer and summary the summary text in it.
CreateCall(cAns) ==
    [op |-> "create_conversation", name |-> NoneVal, query |-> NoneVal,
     ok |-> cAns.ok, err |-> cAns.err, rname |-> cAns.name, summary |-> NoneVal]

ConverseCall(name, query, vAns) ==
    [op |-> "converse_conversation", name |-> name, query |-> query,
     ok |-> vAns.ok, err |-> vAns.err, rname |-> vAns.conv, summary |-> vAns.summary]

\* ------------------------------------------------------ Conversation Proxy

\* A check that forgets the datastore.
ConfigSet_NoDataStore(project, location, datastore) ==
    Truthy(project) /\ Truthy(location)

\* main.py:61, all([PROJECT_ID, LOCATION, DATA_STORE_ID])
ConfigSet(project, location, datastore) ==
    Truthy(project) /\ Truthy(location) /\ Truthy(datastore)

\* A test that takes only None for an absent handle.
HandleIsAbsent_OnlyNone(conversation_name) == conversation_name = NoneVal

\* A test that never finds a handle.
HandleIsAbsent_Always(conversation_name) == TRUE

\* main.py:74, `if not conversation_name:`
HandleIsAbsent(conversation_name) == ~Truthy(conversation_name)

\* main.py:87-91: the value returned when create_conversation raised, a
\* dict of three keys (reply holds "summary", handle "conversation_name").
CreateFailureReturn(e) ==
    [kind |-> "dict", reply |-> <<"Unable to start conversation: ", e>>,
     handle |-> NoneVal]

\* A success path that fails to fall back to the resolved handle.
ConverseSuccessReturn_NoFallback(vAns, conversation_name) ==
    [kind |-> "tuple",
     reply |-> IF vAns.summary # NoneVal THEN <<vAns.summary>>
               ELSE <<"No summary available">>,
     handle |-> vAns.conv]

\* A success path with no placeholder for a missing summary.
ConverseSuccessReturn_NoPlaceholder(vAns, conversation_name) ==
    [kind |-> "tuple",
     reply |-> IF vAns.summary # NoneVal THEN <<vAns.summary>> ELSE <<"">>,
     handle |-> IF vAns.conv # NoneVal THEN vAns.conv ELSE conversation_name]

\* main.py:113-116
ConverseSuccessReturn(vAns, conversation_name) ==
    [kind |-> "tuple",
     reply |-> IF vAns.summary # NoneVal THEN <<vAns.summary>>
               ELSE <<"No summary available">>,
     handle |-> IF vAns.conv # NoneVal THEN vAns.conv ELSE conversation_name]

\* A failure path that drops the handle, as the creation failure does.
ConverseFailureReturn_DropsHandle(e, conversation_name) ==
    [kind |-> "tuple",
     reply |-> <<"Sorry, I encountered an error: ", e, ". Please try again.">>,
     handle |-> NoneVal]

\* main.py:118-121
ConverseFailureReturn(e, conversation_name) ==
    [kind |-> "tuple",
     reply |-> <<"Sorry, I encountered an error: ", e, ". Please try again.">>,
     handle |-> conversation_name]

\* main.py:93-121: the converse call on the resolved handle, after `calls`.
Converse(query, conversation_name, vAns, calls) ==
    [raised |-> NoneVal,
     ret |-> IF vAns.ok THEN ConverseSuccessReturn(vAns, conversation_name)
             ELSE ConverseFailureReturn(vAns.err, conversation_name),
     calls |-> Append(calls, ConverseCall(conversation_name, query, vAns))]

\* main.py:56-121.  cAns and vAns are the answers the external service
\* gives to create_conversation and converse_conversation if called.
converse_chat_with_followups(query, conversation_name, cAns, vAns) ==
    IF ~ConfigSet(PROJECT_ID, LOCATION, DATA_STORE_ID)
    THEN [raised |-> "ValueError", ret |-> NoRet, calls |-> <<>>]
    ELSE IF HandleIsAbsent(conversation_name)
    THEN IF cAns.ok
         THEN Converse(query, cAns.name, vAns, <<CreateCall(cAns)>>)
         ELSE [raised |-> NoneVal, ret |-> CreateFailureReturn(cAns.err),
               calls |-> <<CreateCall(cAns)>>]
    ELSE Converse(query, conversation_name, vAns, <<>>)

\* ------------------------------------------------------------------ routes

\* The number of values `a, b = ret` finds: a tuple gives its two elements,
\* a dict its keys ("summary", "results", "conversation_name").
IterLen(ret) == IF ret.kind = "dict" THEN 3 ELSE 2

\* main.py:131-135 (and 179-183): unpack the returned value into two names
\* and build QueryResponse(reply: str, conversation_id: str).  A value that
\* does not unpack into two, or a conversation_id that is not a str, raises.
BuildQueryResponse(r) ==
    IF r.raised # NoneVal THEN ServerError
    ELSE IF IterLen(r.ret) # 2 THEN ServerError
    ELSE IF r.ret.handle = NoneVal THEN ServerError
    ELSE [NoResp EXCEPT !.status = 200, !.kind = "QueryResponse",
                        !.reply = r.ret.reply, !.conversation_id = r.ret.handle]

\* ----------------------------------------------------- token introspection
\* The shape of a raw token string, as far as splitting and decoding see
\* it: the number of dot-separated segments, and for the header and the
\* payload segment how far base64.urlsafe_b64decode, .decode('utf-8') and
\* json.loads get: "json" decodes to a JSON object, "notjson" is base64url
\* text that is not JSON, "notutf8" is base64url bytes that are not UTF-8,
\* "notb64" is not base64url.

\* The most dot-separated segments a raw token string is given.
MaxSegs == 4

SegKinds == {"json", "notjson", "notutf8", "notb64"}

RawTokens == [segs : 1..MaxSegs, hdr : SegKinds, pay : SegKinds]

\* The shape of the token string a credential carries.
ShapeOf(c) ==
    [segs |-> TokenOf(c).segs,
     hdr |-> IF TokenOf(c).hdrOk THEN "json" ELSE "notb64",
     pay |-> IF TokenOf(c).payOk THEN "json" ELSE "notb64"]

\* `a, b, c = raw.split('.')` raises ValueError unless there are three.
SplitsInThree(t) == t.segs = 3

\* json.loads(base64.urlsafe_b64decode(seg + '==')...) returns an object.
SegDecodes(kind) == kind = "json"

\* main.py:146-158: both maps start empty; in the try block the token is
\* split, then decoded_header is assigned, then decoded_payload; the first
\* exception ends the block and is swallowed, so what was assigned before
\* it stays assigned.
Introspect(t) ==
    IF ~SplitsInThree(t) THEN [header |-> "{}", payload |-> "{}", raised |-> FALSE]
    ELSE IF ~SegDecodes(t.hdr) THEN [header |-> "{}", payload |-> "{}", raised |-> FALSE]
    ELSE IF ~SegDecodes(t.pay)
    THEN [header |-> "header-json", payload |-> "{}", raised |-> FALSE]
    ELSE [header |-> "header-json", payload |-> "payload-json", raised |-> FALSE]

\* app.py:57-79, display_jwt_info: nothing is shown for a falsy token; else
\* the token is split and only the payload is decoded and shown; any
\* exception is caught and shown with st.error.  No header is decoded.
display_jwt_info(present, t) ==
    IF ~present THEN [header |-> "{}", payload |-> "{}", raised |-> FALSE]
    ELSE IF SplitsInThree(t) /\ SegDecodes(t.pay)
    THEN [header |-> "{}", payload |-> "payload-json", raised |-> FALSE]
    ELSE [header |-> "{}", payload |-> "{}", raised |-> FALSE]

\* main.py:146-158 on the token of credential c.
DecodeJwt(c) == Introspect(ShapeOf(c))

\* No token is being looked at.
NoJwt ==
    [pc |-> "none", by |-> "", tok |-> [segs |-> 1, hdr |-> "json", pay |-> "json"],
     header |-> "{}", payload |-> "{}", raised |-> FALSE]

\* ------------------------------------------------------------- the client

\* A turn whose external calls all succeeded and that was answered 200.
TurnSucceeded(r) ==
    /\ r.resp.status = 200
    /\ \A i \in 1..Len(r.calls) : r.calls[i].ok

\* The number of create_conversation calls in a call log.
Creates(calls) ==
    Cardinality({i \in 1..Len(calls) : calls[i].op = "create_conversation"})

\* main.py:27-33, 124-135: the conversation_id a client reads from a
\* QueryResponse and sends back in its next QueryRequest.  A chain starts
\* with a successful /api/query turn sent with a null conversation_id and
\* goes on while the client resubmits the conversation_id last returned and
\* the turn succeeds; it counts its turns and their create calls.
ChainAfter(c, r) ==
    IF r.route = "/api/query" /\ TurnSucceeded(r) /\ r.handle = NoneVal
    THEN [active |-> TRUE, len |-> 1, creates |-> Creates(r.calls),
          last |-> r.resp.conversation_id]
    ELSE IF /\ r.route = "/api/query" /\ TurnSucceeded(r)
            /\ c.active /\ r.handle = c.last /\ c.len < MaxChain
    THEN [active |-> TRUE, len |-> c.len + 1,
          creates |-> c.creates + Creates(r.calls),
          last |-> r.resp.conversation_id]
    ELSE NoChain

\* ---------------------------------------------------------------- frontend

\* app.py:86-92: a new session has the greeting and no conversation_id.
\* pc is "idle" between runs of the script and "posting" inside
\* requests.post; iap_jwt and prompt are the locals of the run.
FeStart ==
    [pc |-> "idle",
     messages |-> <<[role |-> "assistant",
                     content |-> <<"Hello! How can I help you today?">>]>>,
     conversation_id |-> NoneVal, iap_jwt |-> "none", prompt |-> ""]

\* ------------------------------------------------------------------- state

\* The process starts with its environment read (main.py:15-17, and
\* AUDIENCE as validate_iap_jwt reads it), an empty history and no request.
Init ==
    /\ PROJECT_ID \in ProjectValues
    /\ DATA_STORE_ID \in DataStoreValues
    /\ AUDIENCE \in AudienceValues
    /\ conversation_history = {}
    /\ req = IdleReq
    /\ chain = NoChain
    /\ peer = IdleReq
    /\ fe = FeStart
    /\ jwt = NoJwt

\* What no step of a request changes: the environment read at import, the
\* history, the request waiting its turn, the frontend session and the
\* token under introspection.
Env == <<PROJECT_ID, DATA_STORE_ID, AUDIENCE, conversation_history, peer, fe, jwt>>

\* A request arrives.  /api/query and /api/echo depend on auth_scheme and
\* validate_iap_jwt (main.py:125, 139); /api/noauth has no dependency
\* (main.py:171).  /api/echo takes a query and no conversation_id.
Receive(route, cred, query, handle) ==
    /\ req.pc = "idle"
    /\ route = "/api/echo" => handle = NoneVal
    /\ req' = [IdleReq EXCEPT !.pc = IF route = "/api/noauth" THEN "handler" ELSE "bearer",
                              !.route = route, !.cred = cred,
                              !.query = query, !.handle = handle]
    /\ UNCHANGED <<Env, chain>>

\* main.py:21: the HTTPBearer dependency.
BearerStep(notAuthStatus) ==
    /\ req.pc = "bearer"
    /\ LET a == auth_scheme(req.cred, notAuthStatus) IN
         req' = IF a.ok THEN [req EXCEPT !.pc = "validate"]
                ELSE [req EXCEPT !.pc = "done", !.resp = a.resp]
    /\ UNCHANGED <<Env, chain>>

\* main.py:36-53: the validate_iap_jwt dependency.
ValidateStep(certsOk) ==
    /\ req.pc = "validate"
    /\ LET v == validate_iap_jwt(req.cred, AUDIENCE, certsOk) IN
         req' = IF v.ok THEN [req EXCEPT !.pc = "handler", !.identity = v.identity]
                ELSE [req EXCEPT !.pc = "done", !.resp = v.resp]
    /\ UNCHANGED <<Env, chain>>

\* A handler that keeps each caller's conversation in conversation_history
\* and falls back on it when the request brings no handle.
handle_query_UsesHistory(cAns, vAns) ==
    /\ req.pc = "handler"
    /\ req.route = "/api/query"
    /\ LET known == {p \in conversation_history : p[1] = req.identity}
           h == IF ~Truthy(req.handle) /\ known # {}
                THEN (CHOOSE p \in known : TRUE)[2] ELSE req.handle
           r == converse_chat_with_followups(req.query, h, cAns, vAns)
       IN /\ req' = [req EXCEPT !.pc = "done", !.raised = r.raised, !.ret = r.ret,
                                !.calls = r.calls, !.resp = BuildQueryResponse(r)]
          /\ conversation_history' =
                IF r.ret.kind = "tuple" /\ Truthy(r.ret.handle)
                THEN {<<req.identity, r.ret.handle>>}
                ELSE conversation_history
    /\ UNCHANGED <<PROJECT_ID, DATA_STORE_ID, AUDIENCE, chain, peer, fe, jwt>>

\* main.py:124-135
handle_query(cAns, vAns) ==
    /\ req.pc = "handler"
    /\ req.route = "/api/query"
    /\ LET r == converse_chat_with_followups(req.query, req.handle, cAns, vAns) IN
         req' = [req EXCEPT !.pc = "done", !.raised = r.raised, !.ret = r.ret,
                            !.calls = r.calls, !.resp = BuildQueryResponse(r)]
    /\ UNCHANGED <<Env, chain>>

\* main.py:170-183
handle_noauth(cAns, vAns) ==
    /\ req.pc = "handler"
    /\ req.route = "/api/noauth"
    /\ LET r == converse_chat_with_followups(req.query, req.handle, cAns, vAns) IN
         req' = [req EXCEPT !.pc = "done", !.identity = "curl-test-user@example.com",
                            !.raised = r.raised, !.ret = r.ret,
                            !.calls = r.calls, !.resp = BuildQueryResponse(r)]
    /\ UNCHANGED <<Env, chain>>

\* main.py:138-167
handle_echo ==
    /\ req.pc = "handler"
    /\ req.route = "/api/echo"
    /\ LET d == DecodeJwt(req.cred) IN
         req' = [req EXCEPT !.pc = "done",
                            !.resp = [NoResp EXCEPT !.status = 200, !.kind = "Echo",
                                                    !.echo = req.query,
                                                    !.raw_token = req.cred,
                                                    !.decoded_header = d.header,
                                                    !.decoded_payload = d.payload]]
    /\ UNCHANGED <<Env, chain>>

\* The response reaches the client, which keeps the conversation_id.
Deliver ==
    /\ req.pc = "done"
    /\ chain' = ChainAfter(chain, req)
    /\ req' = IdleReq
    /\ UNCHANGED Env

Next ==
    \/ \E route \in Routes, cred \in Creds, query \in Queries, handle \in Handles :
         Receive(route, cred, query, handle)
    \/ \E notAuthStatus \in NotAuthStatuses : BearerStep(notAuthStatus)
    \/ \E certsOk \in BOOLEAN : ValidateStep(certsOk)
    \/ \E cAns \in CreateAnswers, vAns \in ConverseAnswers : handle_query(cAns, vAns)
    \/ \E cAns \in CreateAnswers, vAns \in ConverseAnswers : handle_noauth(cAns, vAns)
    \/ handle_echo
    \/ Deliver

Spec == Init /\ [][Next]_vars

\* ------------------------------------------------------------------ claims

\* The request has been answered.
Done == req.pc = "done"

\* The request was answered by the body of handle_query or handle_noauth.
Handled ==
    /\ Done
    /\ req.route \in {"/api/query", "/api/noauth"}
    /\ req.resp.kind \in {"QueryResponse", "ServerError"}

\* The turn passed the configuration check and resolved a session.
TurnRan == Handled /\ req.raised = NoneVal

\* The piece `e` is part of the text `reply`.
Contains(reply, e) == \E i \in 1..Len(reply) : reply[i] = e

\* The calls of the turn that were made with `op`.
CallsOf(op) == {i \in 1..Len(req.calls) : req.calls[i].op = op}

CreateFailed == \E i \in CallsOf("create_conversation") : ~req.calls[i].ok
CreateSucceeded == \E i \in CallsOf("create_conversation") : req.calls[i].ok
ConverseFailed == \E i \in CallsOf("converse_conversation") : ~req.calls[i].ok
ConverseSucceeded == \E i \in CallsOf("converse_conversation") : req.calls[i].ok

\* C1: a query submitted with an absent handle whose create-session call
\* fails is answered with the pair (reply, handle) where the handle is null
\* and the reply contains the failure detail, and the response built from
\* it carries both; no converse call is made and no state is left over.
C1_CreateFailureDelivered ==
    (Handled /\ ~Truthy(req.handle) /\ CreateFailed) =>
        /\ IterLen(req.ret) = 2
        /\ req.ret.handle = NoneVal
        /\ Contains(req.ret.reply, req.calls[1].err)
        /\ req.resp.status = 200
        /\ req.resp.conversation_id = NoneVal
        /\ Contains(req.resp.reply, req.calls[1].err)
        /\ CallsOf("converse_conversation") = {}
        /\ conversation_history = {}

\* C2: on the query routes a failure of create-session or of converse is
\* answered with a successful-shaped {reply, conversation_id} whose reply
\* carries the error message, never with a failure status.
C2_FailuresAnswered200 ==
    (Handled /\ (CreateFailed \/ ConverseFailed)) =>
        /\ req.resp.status = 200
        /\ req.resp.kind = "QueryResponse"
        /\ \E i \in 1..Len(req.calls) :
              ~req.calls[i].ok /\ Contains(req.resp.reply, req.calls[i].err)

\* C3: with a non-empty input handle, a failed converse call returns the
\* input handle itself with the apologetic reply that embeds the failure
\* detail, and the response carries that same handle.
C3_ConverseFailureKeepsHandle ==
    (Handled /\ Truthy(req.handle) /\ ConverseFailed) =>
        /\ req.ret.kind = "tuple"
        /\ req.ret.handle = req.handle
        /\ req.ret.reply = <<"Sorry, I encountered an error: ",
                             req.calls[Len(req.calls)].err, ". Please try again.">>
        /\ req.resp.status = 200
        /\ req.resp.conversation_id = req.handle

C3_Witness ==
    /\ Handled /\ Truthy(req.handle) /\ ConverseFailed
    /\ req.resp.conversation_id = req.handle

\* C4, as stated: in a turn that resolves a session, an absent (null) input
\* handle means exactly one create-session call, made first; a supplied
\* handle, whatever it is, means no create-session call and a converse call
\* on that handle.
C4_SuppliedHandleNeverCreates ==
    TurnRan =>
        IF req.handle = NoneVal
        THEN /\ Cardinality(CallsOf("create_conversation")) = 1
             /\ req.calls[1].op = "create_conversation"
        ELSE /\ CallsOf("create_conversation") = {}
             /\ Len(req.calls) = 1
             /\ req.calls[1].op = "converse_conversation"
             /\ req.calls[1].name = req.handle

\* C4, amended: in a turn that resolves a session, an absent or empty input
\* handle (null or "") means exactly one create-session call, made before
\* any converse call; a non-empty input handle means no create-session call
\* and exactly one converse call, on that handle.
C4_NonEmptyHandleNeverCreates ==
    TurnRan =>
        IF ~Truthy(req.handle)
        THEN /\ CallsOf("create_conversation") = {1}
             /\ CallsOf("converse_conversation") \subseteq {2}
        ELSE /\ CallsOf("create_conversation") = {}
             /\ Len(req.calls) = 1
             /\ req.calls[1].op = "converse_conversation"
             /\ req.calls[1].name = req.handle

\* An empty handle was sent, and the turn created a session and conversed.
C4_Witness ==
    /\ TurnRan /\ req.handle = ""
    /\ CallsOf("create_conversation") = {1}
    /\ CallsOf("converse_conversation") = {2}

\* The request is on a route that depends on validate_iap_jwt and carries
\* a bearer token.
GatedToken ==
    /\ req.route \in {"/api/query", "/api/echo"}
    /\ req.cred # "none"
    /\ req.pc \in {"handler", "done"}

\* C5: the Auth Gate returns an identity only if the audience is configured
\* and the token is one the verifier accepts for it, and the identity is
\* then the email claim or "unknown_email"; a token with a mismatched
\* audience, an expired timestamp or an invalid signature, and any token
\* when the audience is not configured, is answered 401 with no identity.
C5_AuthGate ==
    GatedToken =>
        LET t == TokenOf(req.cred) IN
            /\ req.identity # NoneVal =>
                  /\ AUDIENCE # NoneVal /\ AUDIENCE # ""
                  /\ t.aud = AUDIENCE /\ ~t.expired /\ t.sigOk /\ t.segs = 3
                  /\ req.identity = IF t.email = NoneVal THEN "unknown_email"
                                    ELSE t.email
            /\ (\/ AUDIENCE = NoneVal
                \/ t.aud # AUDIENCE \/ t.expired \/ ~t.sigOk) =>
                  /\ req.pc = "done"
                  /\ req.identity = NoneVal
                  /\ req.resp.kind = "HTTPException"
                  /\ req.resp.status = 401

\* A token without an email claim was accepted as "unknown_email".
C5_Witness ==
    /\ GatedToken /\ req.cred = "noemail" /\ req.pc = "handler"
    /\ req.identity = "unknown_email"

\* C6: on the authenticated routes every request that fails authentication
\* gets the same answer, 401 with the one generic message, whatever the
\* reason (no credential included).
C6_OneAuthFailureAnswer ==
    (/\ Done
     /\ req.route \in {"/api/query", "/api/echo"}
     /\ req.resp.kind = "HTTPException") =>
        /\ req.resp.status = 401
        /\ req.resp.detail = "Invalid or missing IAP authorization token."

\* The handle the turn conversed on: the input handle, or the name of the
\* conversation the turn created.
ResolvedHandle == IF Truthy(req.handle) THEN req.handle ELSE req.calls[1].rname

\* C7: on /api/query with valid auth, a successful turn sent with a null
\* conversation_id is answered with a non-null one; a later successful turn
\* that resubmits the conversation_id last returned makes no create-session
\* call, so that a chain of such turns has made exactly one.
C7_OneCreatePerChain ==
    /\ chain.active => chain.creates = 1 /\ chain.last # NoneVal
    /\ (/\ Done /\ req.route = "/api/query" /\ TurnSucceeded(req)
        /\ req.handle = NoneVal) =>
           /\ req.identity # NoneVal
           /\ req.resp.conversation_id # NoneVal
    /\ (/\ Done /\ req.route = "/api/query" /\ TurnSucceeded(req)
        /\ chain.active /\ req.handle = chain.last) =>
           CallsOf("create_conversation") = {}

\* A chain of MaxChain successful turns has been delivered.
C7_Witness == chain.active /\ chain.len = MaxChain /\ chain.creates = 1

\* C8: in a turn whose session was created or reused, the handle returned
\* is neither null nor empty, whether converse succeeded or failed; a null
\* handle is returned only when session creation failed.
C8_HandleNonEmpty ==
    TurnRan =>
        /\ (CreateSucceeded \/ Truthy(req.handle)) =>
              req.ret.handle # NoneVal /\ req.ret.handle # ""
        /\ req.ret.handle = NoneVal => CreateFailed

\* A session was created, converse answered without a conversation, and
\* the created name was returned.
C8_Witness ==
    /\ TurnRan /\ CreateSucceeded /\ ConverseSucceeded
    /\ req.calls[2].rname = NoneVal
    /\ req.ret.handle = req.calls[1].rname

\* C9: with a required identifier (project, location, datastore) unset the
\* turn raises a configuration error before any external call, for every
\* query and handle, and no reply text is returned.
C9_ConfigFailsFast ==
    (Handled /\ (\/ PROJECT_ID = NoneVal \/ LOCATION = NoneVal
                 \/ DATA_STORE_ID = NoneVal)) =>
        /\ req.raised = "ValueError"
        /\ req.calls = <<>>
        /\ req.ret.kind = "none"
        /\ req.resp.kind = "ServerError"
        /\ req.resp.reply = <<>>

\* The project is set, the datastore is not, and a turn with a handle
\* raised before conversing.
C9_Witness ==
    /\ Handled /\ PROJECT_ID # NoneVal /\ DATA_STORE_ID = NoneVal
    /\ Truthy(req.handle) /\ req.raised = "ValueError" /\ req.calls = <<>>

\* C10: when converse succeeds with no summary in the response, the reply
\* is exactly "No summary available", the turn is answered 200, and the
\* handle returned is the response's conversation name, or the resolved
\* handle when the response has no conversation.
C10_NoSummaryPlaceholder ==
    (/\ TurnRan /\ ConverseSucceeded
     /\ req.calls[Len(req.calls)].summary = NoneVal) =>
        LET c == req.calls[Len(req.calls)] IN
            /\ req.ret.reply = <<"No summary available">>
            /\ req.ret.handle = IF c.rname # NoneVal THEN c.rname ELSE ResolvedHandle
            /\ req.resp.status = 200
            /\ req.resp.reply = <<"No summary available">>
            /\ req.resp.conversation_id = req.ret.handle

\* A response with neither summary nor conversation, on a reused handle.
C10_Witness ==
    /\ TurnRan /\ ConverseSucceeded /\ Truthy(req.handle)
    /\ req.calls[1].summary = NoneVal /\ req.calls[1].rname = NoneVal
    /\ req.resp.reply = <<"No summary available">>
    /\ req.resp.conversation_id = req.handle

\* The request is on an authenticated route with a credential that cannot
\* pass: none at all, no audience configured, or a token that is malformed,
\* badly signed, expired or meant for another audience.
AuthMustFail ==
    /\ req.route \in {"/api/query", "/api/echo"}
    /\ \/ req.cred = "none"
       \/ AUDIENCE = NoneVal
       \/ TokenOf(req.cred).segs # 3
       \/ ~TokenOf(req.cred).sigOk
       \/ TokenOf(req.cred).expired
       \/ TokenOf(req.cred).aud # AUDIENCE

\* C12: on /api/query and /api/echo the Auth Gate runs before the handler:
\* a request whose authentication fails never reaches the handler, makes
\* no create-session and no converse call, and gets no token details back.
C12_GateBeforeHandler ==
    req.route \in {"/api/query", "/api/echo"} =>
        /\ (AuthMustFail \/ req.resp.kind = "HTTPException") =>
              /\ req.pc # "handler"
              /\ req.calls = <<>>
              /\ req.ret = NoRet
              /\ req.resp.kind \in {"none", "HTTPException"}
              /\ req.resp.raw_token = ""
              /\ req.resp.decoded_header = ""
              /\ req.resp.decoded_payload = ""
        /\ (req.pc = "handler" \/ req.calls # <<>> \/ req.resp.kind = "Echo") =>
              req.identity # NoneVal

\* A badly signed token was refused on /api/echo with nothing decoded.
C12_Witness ==
    /\ Done /\ req.route = "/api/echo" /\ req.cred = "badsig"
    /\ req.resp.status = 401 /\ req.resp.raw_token = "" /\ req.calls = <<>>

\* ----------------------------------------------------- concurrent requests
\* Two requests in flight.  The steps above act on req, the request whose
\* step runs next; Swap hands the turn to the other request, so that the
\* steps of the two interleave in every order (a dependency or a handler
\* body of one request between any two steps of the other).
Swap ==
    /\ req # peer
    /\ req' = peer
    /\ peer' = req
    /\ UNCHANGED <<PROJECT_ID, DATA_STORE_ID, AUDIENCE, conversation_history,
                   chain, fe, jwt>>

\* The response is sent and the request is over.
Respond ==
    /\ req.pc = "done"
    /\ req' = IdleReq
    /\ UNCHANGED <<Env, chain>>

\* The credentials and handles the two concurrent requests are given: no
\* credential, an acceptable token and a refused one; no handle and a
\* handle.
ConcurrentCreds == {"none", "good", "expired"}
ConcurrentHandles == {NoneVal, "conversations/c1"}

ConcurrentNext ==
    \/ \E route \in Routes, cred \in ConcurrentCreds, query \in Queries,
          handle \in ConcurrentHandles :
         Receive(route, cred, query, handle)
    \/ \E notAuthStatus \in NotAuthStatuses : BearerStep(notAuthStatus)
    \/ \E certsOk \in BOOLEAN : ValidateStep(certsOk)
    \/ \E cAns \in CreateAnswers, vAns \in ConverseAnswers : handle_query(cAns, vAns)
    \/ \E cAns \in CreateAnswers, vAns \in ConverseAnswers : handle_noauth(cAns, vAns)
    \/ handle_echo
    \/ Respond
    \/ Swap

ConcurrentSpec == Init /\ [][ConcurrentNext]_vars

\* The request r was answered by the body of handle_query or handle_noauth.
Answered(r) ==
    /\ r.pc = "done"
    /\ r.route \in {"/api/query", "/api/noauth"}
    /\ r.resp.kind \in {"QueryResponse", "ServerError"}

\* What the external service answered to a call.
AnswerOf(c) == <<c.ok, c.err, c.rname, c.summary>>

\* The external service gave the two requests the same answers: wherever
\* both made the same kind of call, the answers to it were the same.
SameAnswers(a, b) ==
    \A i \in 1..Len(a.calls), j \in 1..Len(b.calls) :
        a.calls[i].op = b.calls[j].op => AnswerOf(a.calls[i]) = AnswerOf(b.calls[j])

\* C13: under every interleaving of two requests the module-level
\* conversation_history stays empty, and a request's result depends only
\* on its own query, its own handle and the answers to its own calls: two
\* answered requests that agree on these made the same calls and got the
\* same returned value and the same response.
C13_NoSharedSessionState ==
    /\ conversation_history = {}
    /\ (/\ Answered(req) /\ Answered(peer)
        /\ req.query = peer.query /\ req.handle = peer.handle
        /\ SameAnswers(req, peer)) =>
           /\ req.calls = peer.calls
           /\ req.raised = peer.raised
           /\ req.ret = peer.ret
           /\ req.resp = peer.resp

\* Two requests, one on each query route, were in flight together with the
\* same query and no handle, and each created a session of its own.
C13_Witness ==
    /\ Answered(req) /\ Answered(peer)
    /\ req.route = "/api/query" /\ peer.route = "/api/noauth"
    /\ req.query = peer.query /\ req.handle = NoneVal /\ peer.handle = NoneVal
    /\ Len(req.calls) = 2 /\ Len(peer.calls) = 2
    /\ SameAnswers(req, peer)
    /\ req.resp = peer.resp /\ req.resp.status = 200
    /\ conversation_history = {}

\* ------------------------------------------------------ frontend session
\* One browser session of app.py against the backend.  Streamlit runs the
\* script once per submitted prompt; the run is one step when it stays
\* local, and two when it posts: up to requests.post, and from the answer
\* (or the failure) of requests.post to the end of the script.

\* The most prompts submitted in the session.
MaxPrompts == 3

\* app.py:16, API_URL = f"{BACKEND_URL}/api/noauth"
API_URL == "/api/noauth"

\* app.py:29-35, get_iap_jwt: the x-goog-iap-jwt-assertion header of the
\* session, "none" when it is absent or the headers cannot be read, ""
\* when it is empty.
FeHeaders == {"none", "", "good", "malformed"}

\* A test that takes every header value for a token.
IapJwtMissing_Never(iap_jwt) == FALSE

\* app.py:113, `if not iap_jwt:`
IapJwtMissing(iap_jwt) == iap_jwt = "none" \/ iap_jwt = ""

FeLocalText == <<"I am in local mode. I cannot connect to the backend.">>
FeErrorText == <<"An error occurred. Please check the details above.">>

\* app.py:110, 155: a message of the transcript.
Msg(role, content) == [role |-> role, content |-> content]

\* The number of prompts submitted so far.
Prompts(f) == Cardinality({i \in 1..Len(f.messages) : f.messages[i].role = "user"})

\* A run that forgets the conversation when the request fails.
FeAfterPost_ForgetsOnFailure(f, r, delivered) ==
    LET ok == delivered /\ r.resp.status < 400 IN
        [f EXCEPT !.pc = "idle", !.iap_jwt = "none", !.prompt = "",
                  !.messages = Append(f.messages,
                      Msg("assistant", IF ok THEN r.resp.reply ELSE FeErrorText)),
                  !.conversation_id = IF ok THEN r.resp.conversation_id ELSE NoneVal]

\* A run that shows the failure and adds no assistant message for it.
FeAfterPost_NoMessageOnFailure(f, r, delivered) ==
    LET ok == delivered /\ r.resp.status < 400 IN
        [f EXCEPT !.pc = "idle", !.iap_jwt = "none", !.prompt = "",
                  !.messages = IF ok THEN Append(f.messages, Msg("assistant", r.resp.reply))
                               ELSE f.messages,
                  !.conversation_id = IF ok THEN r.resp.conversation_id
                                      ELSE f.conversation_id]

\* app.py:128-155: the rest of the run after requests.post.  `delivered`
\* says whether a response came back (else a connection error was
\* raised); raise_for_status raises for a status of 400 and above.  On
\* success the reply is shown and conversation_id is taken from the
\* response; on a RequestException the error text is shown and
\* conversation_id is left alone.  The assistant message is appended.
FeAfterPost(f, r, delivered) ==
    LET ok == delivered /\ r.resp.status < 400 IN
        [f EXCEPT !.pc = "idle", !.iap_jwt = "none", !.prompt = "",
                  !.messages = Append(f.messages,
                      Msg("assistant", IF ok THEN r.resp.reply ELSE FeErrorText)),
                  !.conversation_id = IF ok THEN r.resp.conversation_id
                                      ELSE f.conversation_id]

FeRest == <<PROJECT_ID, DATA_STORE_ID, AUDIENCE, conversation_history, chain, peer, jwt>>

\* app.py:99-115, 151-155: a prompt is submitted and the session has no
\* token: the user message and the local-mode message are appended and no
\* request is made.
FeLocalTurn(prompt, header) ==
    /\ fe.pc = "idle" /\ req.pc = "idle"
    /\ Prompts(fe) < MaxPrompts
    /\ IapJwtMissing(header)
    /\ fe' = [fe EXCEPT !.messages = fe.messages \o
                 <<Msg("user", <<prompt>>), Msg("assistant", FeLocalText)>>]
    /\ UNCHANGED <<req, FeRest>>

\* app.py:99-128: a prompt is submitted and the session has a token: the
\* user message is appended and the request is posted to API_URL with the
\* token as bearer credential, the prompt as query and the stored
\* conversation_id.  /api/noauth has no dependency, so the request stands
\* before its handler.
FePost(prompt, header) ==
    /\ fe.pc = "idle" /\ req.pc = "idle"
    /\ Prompts(fe) < MaxPrompts
    /\ ~IapJwtMissing(header)
    /\ fe' = [fe EXCEPT !.pc = "posting", !.iap_jwt = header, !.prompt = prompt,
                        !.messages = Append(fe.messages, Msg("user", <<prompt>>))]
    /\ req' = [IdleReq EXCEPT !.pc = "handler", !.route = API_URL, !.cred = header,
                              !.query = prompt, !.handle = fe.conversation_id]
    /\ UNCHANGED FeRest

\* app.py:128-155: the backend's response comes back.
FeReceive ==
    /\ fe.pc = "posting" /\ req.pc = "done"
    /\ fe' = FeAfterPost(fe, req, TRUE)
    /\ req' = IdleReq
    /\ UNCHANGED FeRest

\* app.py:128, 141-155: requests.post raises a connection error, before
\* the backend ran the handler or after it.
FeConnectionError ==
    /\ fe.pc = "posting" /\ req.pc \in {"handler", "done"}
    /\ fe' = FeAfterPost(fe, req, FALSE)
    /\ req' = IdleReq
    /\ UNCHANGED FeRest

FrontendNext ==
    \/ \E prompt \in Queries, header \in FeHeaders : FeLocalTurn(prompt, header)
    \/ \E prompt \in Queries, header \in FeHeaders : FePost(prompt, header)
    \/ \E cAns \in CreateAnswers, vAns \in ConverseAnswers : handle_noauth(cAns, vAns)
    \/ FeReceive
    \/ FeConnectionError

FrontendSpec == Init /\ [][FrontendNext]_vars

\* C14: the frontend has a request at the backend only inside a run that
\* obtained a token from the request headers, and the request carries that
\* token as bearer credential with the prompt just submitted and the
\* conversation handle stored in the session; with no token a submitted
\* prompt makes no backend call.
C14_RequestsCarryToken ==
    /\ req.pc # "idle" =>
          /\ fe.pc = "posting"
          /\ req.cred \notin {"none", ""}
          /\ req.cred = fe.iap_jwt
          /\ req.route = "/api/noauth"
          /\ req.query = fe.prompt
          /\ fe.messages[Len(fe.messages)] = Msg("user", <<req.query>>)
          /\ req.handle = fe.conversation_id
    /\ (/\ fe.pc = "idle" /\ Len(fe.messages) > 1
        /\ fe.messages[Len(fe.messages)].content = FeLocalText) =>
          req.pc = "idle" /\ req.calls = <<>>

\* The second prompt is at the backend with the handle the first returned.
C14_Witness ==
    /\ req.pc = "done" /\ fe.pc = "posting"
    /\ Prompts(fe) = 2
    /\ fe.conversation_id # NoneVal /\ req.handle = fe.conversation_id
    /\ req.cred = "good"

\* The frontend took a step of its run.
FeLast(f) == f.messages[Len(f.messages)]

\* What a step may do to the stored conversation handle.
C15_Step ==
    /\ fe'.conversation_id # fe.conversation_id =>
          /\ fe.pc = "posting" /\ req.pc = "done"
          /\ req.resp.status = 200
          /\ fe'.conversation_id = req.resp.conversation_id
    /\ (/\ fe.pc = "posting" /\ fe'.pc = "idle"
        /\ req.pc = "done" /\ req.resp.status = 200
        /\ FeLast(fe').content # FeErrorText) =>
          fe'.conversation_id = req.resp.conversation_id
    /\ (fe.pc = "idle" /\ fe'.pc = "posting") =>
          req'.handle = fe.conversation_id

\* C15: the stored conversation handle starts as null and changes only
\* when a backend request returns a successful response, and then to that
\* response's conversation_id; a local-mode turn, a connection error and a
\* non-success status leave it as it was, and the next request sends it.
C15_HandleChangesOnlyOnSuccess ==
    /\ fe.conversation_id = NoneVal
    /\ [][C15_Step]_vars

\* A handle was stored, and the next turn failed and kept it.
C15_Witness ==
    /\ fe.pc = "idle" /\ Prompts(fe) = 2
    /\ fe.conversation_id # NoneVal
    /\ fe.messages[3].content # FeErrorText /\ fe.messages[3].content # FeLocalText
    /\ FeLast(fe).content = FeErrorText

\* The transcript between and inside runs: the greeting first, then user
\* and assistant messages in turn, complete (odd) between runs and one
\* user message ahead inside a run.
C16_Shape ==
    /\ fe.messages[1] = Msg("assistant", <<"Hello! How can I help you today?">>)
    /\ \A i \in 1..Len(fe.messages) :
          fe.messages[i].role = IF i % 2 = 1 THEN "assistant" ELSE "user"
    /\ fe.pc = "idle" => Len(fe.messages) = 1 + 2 * Prompts(fe)
    /\ fe.pc = "posting" =>
          /\ Len(fe.messages) = 2 * Prompts(fe)
          /\ FeLast(fe) = Msg("user", <<fe.prompt>>)

\* What a step may do to the transcript: keep every message there is and
\* append the two of a local turn, the user message of a posted prompt or
\* the assistant message that ends the run.
C16_Step ==
    /\ Len(fe'.messages) >= Len(fe.messages)
    /\ SubSeq(fe'.messages, 1, Len(fe.messages)) = fe.messages
    /\ Len(fe'.messages) - Len(fe.messages) =
          IF fe.pc = "idle" /\ fe'.pc = "idle" /\ fe' # fe THEN 2
          ELSE IF fe.pc # fe'.pc THEN 1
          ELSE 0

\* C16: the transcript starts with the one assistant greeting, each prompt
\* appends the user's message and then one assistant message in every
\* branch (local mode, backend success, backend failure), so that after n
\* prompts there are 1 + 2n messages with alternating roles, and no
\* earlier message is changed or removed.
C16_TranscriptGrowsInPairs ==
    /\ []C16_Shape
    /\ [][C16_Step]_vars

\* Three prompts: one answered locally, one by the backend, one failed.
C16_Witness ==
    /\ fe.pc = "idle" /\ Len(fe.messages) = 7
    /\ \E i, j, k \in {3, 5, 7} :
          /\ fe.messages[i].content = FeLocalText
          /\ fe.messages[j].content = FeErrorText
          /\ fe.messages[k].content = <<"No summary available">>

\* ---------------------------------------------- token introspection, alone
\* The introspection blocks as functions of the raw token string: a token
\* string of any shape is given to the block of handle_echo or to
\* display_jwt_info, and jwt keeps what came out.

IntrospectInit ==
    /\ PROJECT_ID = "1234567890"
    /\ DATA_STORE_ID = "my-datastore"
    /\ AUDIENCE = "aud-A"
    /\ conversation_history = {}
    /\ req = IdleReq
    /\ chain = NoChain
    /\ peer = IdleReq
    /\ fe = FeStart
    /\ \E t \in RawTokens : jwt = [NoJwt EXCEPT !.pc = "raw", !.tok = t]

\* main.py:146-158
EchoIntrospects ==
    /\ jwt.pc = "raw"
    /\ LET d == Introspect(jwt.tok) IN
         jwt' = [jwt EXCEPT !.pc = "decoded", !.by = "handle_echo",
                            !.header = d.header, !.payload = d.payload,
                            !.raised = d.raised]
    /\ UNCHANGED <<PROJECT_ID, DATA_STORE_ID, AUDIENCE, conversation_history,
                   req, chain, peer, fe>>

\* app.py:57-79
FrontendIntrospects ==
    /\ jwt.pc = "raw"
    /\ LET d == display_jwt_info(TRUE, jwt.tok) IN
         jwt' = [jwt EXCEPT !.pc = "decoded", !.by = "display_jwt_info",
                            !.header = d.header, !.payload = d.payload,
                            !.raised = d.raised]
    /\ UNCHANGED <<PROJECT_ID, DATA_STORE_ID, AUDIENCE, conversation_history,
                   req, chain, peer, fe>>

IntrospectNext == EchoIntrospects \/ FrontendIntrospects

IntrospectSpec == IntrospectInit /\ [][IntrospectNext]_vars

\* The token string is not three segments of base64url JSON where it is
\* decoded.
Malformed(t) == t.segs # 3 \/ t.hdr # "json" \/ t.pay # "json"

\* C11: introspection of a malformed token (not three segments, or a header
\* or payload segment that is not base64url JSON) gives empty structures
\* for both header and payload and raises nothing; a header that decodes
\* before a payload that does not is empty too.
C11_MalformedGivesEmptyMaps ==
    (jwt.pc = "decoded" /\ Malformed(jwt.tok)) =>
        /\ ~jwt.raised
        /\ jwt.header = "{}"
        /\ jwt.payload = "{}"

====
